---- MODULE Spec2Model ----
(***************************************************************************)
(* Streaming ingestion pipeline of pynthora-terminal:                      *)
(*   - the Retry Engine            (src/core/retry.rs)                     *)
(*   - the Event Reader, Batch Validator and Batch Sender                  *)
(*                                 (src/commands/stream.rs,                *)
(*                                  src/core/validation.rs)                *)
(*   - the Duplex Stream Client    (src/sdk/websocket.rs)                  *)
(* Durations are in milliseconds.                                          *)
(***************************************************************************)
EXTENDS Integers, Sequences, FiniteSets, TLC

\* ------------------------------------------------------------------ bounds
\* largest max_attempts a RetryConfig is drawn with
MaxAttemptsBound == 3
\* number of freely chosen lines at the head of an input file
MaxHeadLines == 2
\* the head is followed by 0..MaxPadBatches full batches of well-formed lines
MaxPadBatches == 1
\* connection attempts of the Duplex Stream Client that are explored
MaxConnects == 3
\* inbound messages (over all connections) that are explored
MaxInbound == 3
\* freely chosen events at the head of a batch given to validate_batch alone
MaxBatchHead == 2
\* steps of a pipeline definition given to `pipeline push`
MaxSteps == 2
\* tasks that call Config::load
MaxLoaders == 2

VARIABLES
    \* commands::stream::run
    file,         \* the input file: [head |-> its first lines, pad |-> k], the
                  \* head being followed by k full batches of one line
    pipeline,     \* commands::pipeline::push: the parsed pipeline definition
    preserve_order, \* build: serde_json's Map keeps insertion order (feature
                  \* preserve_order, IndexMap) or sorts its keys (BTreeMap)
    idx,          \* number of lines the parse loop has consumed
    events,       \* local `events`
    parse_errors, \* local `parse_errors`
    validation,   \* local `validation`
    pc,           \* position inside run
    offset,       \* number of events in the chunks already iterated
    chunk,        \* index of the current chunk of events.chunks(batch_size)
    successful,   \* local `successful`
    failed,       \* local `failed`
    \* Retry Engine (retry_with_backoff)
    cfg,          \* the RetryConfig in use
    rpc,          \* position inside retry_with_backoff
    attempt,      \* loop variable of `for attempt in 1..=max_attempts`
    delay,        \* local `delay`
    last_error,   \* local `last_error`: <<>> is None, <<d>> is Some(d)
    result,       \* value returned by retry_with_backoff
    attempt_errors, \* history: descriptions of the errors of the failed
                  \* attempts of the current call of retry_with_backoff
    \* history of the calls the Retry Engine and the Batch Sender made
    trace,
    \* Duplex Stream Client (WebSocketClient)
    ingest_url,   \* config.ingest_url
    ws_url,       \* local `ws_url` of connect_and_stream
    ws_pc,        \* position inside connect_and_stream / connect_once
    conn,         \* number of calls of connect_once so far
    ws_trace,     \* history of what the client did, in order
    \* core::config
    environment,  \* where a configuration can be found: "env", "file", "none"
    CACHED_CONFIG, \* the OnceLock: <<>> when empty, <<c>> when set to c
    loaders,      \* per task calling Config::load: position, argument,
                  \* the config it built and what load returned to it
    \* core::workspace (WorkspaceManager)
    workspaces,   \* field `workspaces`: a map from names to Workspace values
    current,      \* field `current`: <<>> is None, <<n>> is Some(n)
    workspace_file, \* ~/.pynthora/workspaces.toml as save leaves it
    mgr_ret       \* what the last call of add_workspace / set_current returned

readVars == <<file, pipeline, preserve_order, idx, events, parse_errors>>
runVars == <<readVars, validation, pc, offset, chunk, successful, failed>>
retryVars ==
    <<cfg, rpc, attempt, delay, last_error, result, attempt_errors>>
wsVars == <<ingest_url, ws_url, ws_pc, conn, ws_trace>>
loadVars == <<environment, CACHED_CONFIG, loaders>>
mgrVars == <<workspaces, current, workspace_file, mgr_ret>>
vars == <<runVars, retryVars, trace, wsVars, loadVars, mgrVars>>

\* ------------------------------------------------------------ Retry Engine
Min(a, b) == IF a <= b THEN a ELSE b

\* backoff_multiplier is an f64; the values used are the dyadic rationals
\* num/den, for which the f64 product of a small integer is exact
Multipliers == { [num |-> 2, den |-> 1], [num |-> 3, den |-> 2] }
InitialDelays == {100, 3, 6000}
MaxDelays == {5000, 150}

RetryConfigs ==
    [max_attempts : 0..MaxAttemptsBound, initial_delay : InitialDelays,
     max_delay : MaxDelays, backoff_multiplier : Multipliers]

\* descriptions (e.to_string()) of the errors an operation may fail with
ErrDescs ==
    {"Batch request failed: 503 Service Unavailable",
     "Batch request failed: 400 Bad Request"}

\* error.to_lowercase(), as the words of the description
to_lowercase(d) ==
    IF d = "Batch request failed: 503 Service Unavailable"
       THEN <<"batch", "request", "failed:", "503", "service", "unavailable">>
       ELSE <<"batch", "request", "failed:", "400", "bad", "request">>

retryable_patterns ==
    {"timeout", "connection", "network", "temporary", "503", "502", "504", "429"}

\* is_retryable_error: some pattern occurs in the lower-cased description
is_retryable_error(d) ==
    \E i \in 1..Len(to_lowercase(d)) : to_lowercase(d)[i] \in retryable_patterns

Outcomes == {[ok |-> TRUE, desc |-> ""]} \cup [ok : {FALSE}, desc : ErrDescs]

NoResult == [kind |-> "none", attempts |-> 0, last |-> ""]
OkResult == [kind |-> "ok", attempts |-> 0, last |-> ""]

\* anyhow::bail!("Operation failed after {} attempts. Last error: {}", ...)
Bail(c, le) ==
    [kind |-> "err", attempts |-> c.max_attempts,
     last |-> IF le = <<>> THEN "Unknown error" ELSE le[1]]

\* (delay.as_millis() as f64 * backoff_multiplier) as u64, then min(max_delay)
NextDelay(d, c) ==
    Min((d * c.backoff_multiplier.num) \div c.backoff_multiplier.den, c.max_delay)

Ev(e, b, v) == [ev |-> e, batch |-> b, val |-> v]

\* `if attempt < config.max_attempts`
MoreAttemptsAlways(a, c) == a <= c.max_attempts
MoreAttempts(a, c) == a < c.max_attempts

\* the Err arm asks only whether attempts are left, never what the error is
RetryIfRetryable(a, c, d) == MoreAttempts(a, c) /\ is_retryable_error(d)
ShouldRetry(a, c, d) == MoreAttempts(a, c)

\* the position after the Ok arm: `return Ok(value)`
OkArmContinues == "sleeping"
OkArm == "returned"

\* the operation the engine is retrying: the delivery of the current chunk
\* (0 when the engine runs on its own)
CurrentOp == chunk

\* `last_error = Some(e.to_string())`
RememberFirst(le, d) == IF le = <<>> THEN <<d>> ELSE le
Remember(le, d) == <<d>>

\* `let mut delay = config.initial_delay;`: every call starts from the
\* configured delay
CarriedDelay(c) == c.initial_delay * (IF chunk > 1 THEN 2 ELSE 1)
StartDelay(c) == c.initial_delay

\* `for attempt in 1..=config.max_attempts`: the range is empty when
\* max_attempts is 0, and the body is then never entered
LoopEnteredAlways(c) == TRUE
LoopEntered(c) == c.max_attempts >= 1

\* entry of retry_with_backoff up to the first f().await
RetryStart ==
    /\ rpc = "start"
    /\ delay' = StartDelay(cfg)
    /\ last_error' = <<>>
    /\ attempt_errors' = <<>>
    /\ attempt' = 1
    /\ IF LoopEntered(cfg)
          THEN /\ rpc' = "await_op"
               /\ result' = result
               /\ trace' = Append(trace, Ev("call", CurrentOp, 1))
          ELSE /\ rpc' = "returned"
               /\ result' = Bail(cfg, <<>>)
               /\ trace' = trace
    /\ UNCHANGED <<cfg, runVars, wsVars, loadVars, mgrVars>>

\* f().await resolves: Ok returns, Err records the error and either starts
\* the sleep or leaves the loop and bails
OpCompletes ==
    /\ rpc = "await_op"
    /\ \E o \in Outcomes :
         IF o.ok
            THEN /\ rpc' = OkArm
                 /\ result' = OkResult
                 /\ last_error' = last_error
                 /\ attempt_errors' = attempt_errors
                 /\ trace' = Append(trace, Ev("ok", CurrentOp, attempt))
            ELSE /\ last_error' = Remember(last_error, o.desc)
                 /\ attempt_errors' = Append(attempt_errors, o.desc)
                 /\ IF ShouldRetry(attempt, cfg, o.desc)
                       THEN /\ rpc' = "sleeping"
                            /\ result' = result
                            /\ trace' = trace \o <<Ev("err", CurrentOp, attempt),
                                                   Ev("sleep", CurrentOp, delay)>>
                       ELSE /\ rpc' = "returned"
                            /\ result' = Bail(cfg, Remember(last_error, o.desc))
                            /\ trace' = Append(trace, Ev("err", CurrentOp, attempt))
    /\ UNCHANGED <<cfg, attempt, delay, runVars, wsVars, loadVars, mgrVars>>

\* sleep(delay).await resolves: the delay grows and the loop goes on: it
\* invokes f again while attempt is in 1..=max_attempts, else it ends in bail
SleepCompletes ==
    /\ rpc = "sleeping"
    /\ delay' = NextDelay(delay, cfg)
    /\ attempt' = attempt + 1
    /\ IF attempt + 1 <= cfg.max_attempts
          THEN /\ rpc' = "await_op"
               /\ result' = result
               /\ trace' = Append(trace, Ev("call", CurrentOp, attempt + 1))
          ELSE /\ rpc' = "returned"
               /\ result' = Bail(cfg, last_error)
               /\ trace' = trace
    /\ UNCHANGED <<cfg, last_error, attempt_errors, runVars, wsVars, loadVars, mgrVars>>

\* ------------------------------------------------------------ Event Reader
\* A line is a sequence of lexical tokens; the text of a token is never split.
W(s) == [t |-> "ws", k |-> "", s |-> s]
P(s) == [t |-> "punct", k |-> "", s |-> s]
M(k, v) == [t |-> "member", k |-> k, s |-> v]
N(s) == [t |-> "number", k |-> "", s |-> s]
X(s) == [t |-> "other", k |-> "", s |-> s]

LEmpty == <<>>
LSpaces == <<W(" "), W("\t")>>
LGoodA == <<P("{"), M("timestamp", "1"), P(","), M("source", "\"s\""), P(","),
            M("data", "{}"), P("}")>>
LGoodB == <<W(" "), P("{"), M("source", "\"s\""), P(","), M("timestamp", "2"),
            P(","), M("data", "{}"), P("}"), W(" ")>>
LNoData == <<P("{"), M("timestamp", "1"), P(","), M("source", "\"s\""), P("}")>>
LNumber == <<N("1")>>
LTruncated == <<P("{"), M("timestamp", "1"), P(",")>>
LJunk == <<W(" "), X("oops")>>

Lines == {LEmpty, LSpaces, LGoodA, LGoodB, LNoData, LNumber, LTruncated, LJunk}

\* a TelemetryEvent as serde serialises it: it has `event_type`, no `source`
LTelemetry == <<P("{"), M("timestamp", "1"), P(","), M("event_type", "\"t\""),
                P(","), M("data", "{}"), P(","), M("metadata", "null"), P("}")>>

\* str::trim: strip leading and trailing whitespace
RECURSIVE trim_start(_)
trim_start(l) ==
    IF l # <<>> /\ Head(l).t = "ws" THEN trim_start(Tail(l)) ELSE l

RECURSIVE trim_end(_)
trim_end(l) ==
    IF l # <<>> /\ l[Len(l)].t = "ws" THEN trim_end(SubSeq(l, 1, Len(l) - 1)) ELSE l

trim(l) == trim_end(trim_start(l))

\* `line.trim().is_empty()`
SkipLineNoTrim(l) == l = <<>>
SkipLine(l) == trim(l) = <<>>

\* serde_json::Value; `keys` is the iteration order of an object's Map
NumberValue(s) ==
    [kind |-> "number", text |-> s, map |-> [k \in {} |-> ""], keys |-> <<>>]
ObjectValue(m, ks) == [kind |-> "object", text |-> "", map |-> m, keys |-> ks]

\* the members of an object body `m , m , ... , m`; a repeated key keeps the
\* last value
MembersOk(inner) ==
    /\ Len(inner) % 2 = 1
    /\ \A i \in 1..Len(inner) :
         IF i % 2 = 1 THEN inner[i].t = "member" ELSE inner[i] = P(",")

LastOf(inner, key) ==
    CHOOSE i \in 1..Len(inner) :
        /\ inner[i].t = "member" /\ inner[i].k = key
        /\ \A j \in (i + 1)..Len(inner) : ~(inner[j].t = "member" /\ inner[j].k = key)

MapOf(inner) ==
    [key \in {inner[i].k : i \in {j \in 1..Len(inner) : inner[j].t = "member"}}
        |-> inner[LastOf(inner, key)].s]

\* the keys of the input lines, in byte order
KeyRank == <<"data", "event_type", "metadata", "source", "timestamp">>

\* Map iteration order: BTreeMap iterates in key order, IndexMap in the order
\* of first insertion
SortedOrder(m) == SelectSeq(KeyRank, LAMBDA k : k \in DOMAIN m)
InsertionOrder(inner) ==
    LET mem == SelectSeq(inner, LAMBDA tok : tok.t = "member")
        first == SelectSeq([i \in 1..Len(mem) |-> i],
                           LAMBDA i : \A j \in 1..(i - 1) : mem[j].k # mem[i].k)
    IN  [n \in 1..Len(first) |-> mem[first[n]].k]
KeysOf(inner) ==
    IF preserve_order THEN InsertionOrder(inner) ELSE SortedOrder(MapOf(inner))

\* serde_json::from_str::<Value>: one JSON value, whitespace allowed around
\* every token, nothing after the value
from_str(l) ==
    LET core == SelectSeq(l, LAMBDA tok : tok.t # "ws")
        n == Len(core)
    IN  IF n = 1 /\ core[1].t = "number"
           THEN [ok |-> TRUE, value |-> NumberValue(core[1].s)]
        ELSE IF n >= 2 /\ core[1] = P("{") /\ core[n] = P("}")
                  /\ (n = 2 \/ MembersOk(SubSeq(core, 2, n - 1)))
           THEN [ok |-> TRUE,
                 value |-> ObjectValue(MapOf(SubSeq(core, 2, n - 1)),
                                       KeysOf(SubSeq(core, 2, n - 1)))]
        ELSE [ok |-> FALSE, value |-> NumberValue("")]

\* serde_json::to_string of a Value: compact, no whitespace, the members of
\* an object in the iteration order of its Map (member values are scalars or
\* empty containers, whose compact text is the text that was read)
RECURSIVE Members(_, _)
Members(v, i) ==
    IF i > Len(v.keys) THEN <<>>
    ELSE (IF i > 1 THEN <<P(",")>> ELSE <<>>)
            \o <<M(v.keys[i], v.map[v.keys[i]])>> \o Members(v, i + 1)

to_string(v) ==
    IF v.kind = "number" THEN <<N(v.text)>>
    ELSE <<P("{")>> \o Members(v, 1) \o <<P("}")>>

\* the input files: a head of freely chosen lines followed by full batches
\* of one well-formed line
DEFAULT_BATCH_SIZE == 100

Heads == UNION {[1..n -> Lines] : n \in 0..MaxHeadLines}
Files == [head : Heads, pad : 0..MaxPadBatches]

\* `lines.len()` and `lines[i - 1]` of the file read into `lines`
NumLines == Len(file.head) + file.pad * DEFAULT_BATCH_SIZE
LineAt(i) == IF i <= Len(file.head) THEN file.head[i] ELSE LGoodA

\* `Ok(event) => events.push(event)`
PushFront(evs, v) == <<v>> \o evs
PushEvent(evs, v) == Append(evs, v)

\* `Err(e) => { parse_errors += 1; ... }`: nothing is pushed
PushRepaired(evs, l) == Append(evs, from_str(LGoodA).value)
OnParseError(evs, l) == evs

\* one iteration of `for (idx, line) in lines.iter().enumerate()`
ReadLine ==
    /\ pc = "read"
    /\ idx < NumLines
    /\ LET line == LineAt(idx + 1)
           parsed == from_str(line)
       IN  IF SkipLine(line)
              THEN UNCHANGED <<events, parse_errors>>
           ELSE IF parsed.ok
              THEN /\ events' = PushEvent(events, parsed.value)
                   /\ parse_errors' = parse_errors
           ELSE /\ parse_errors' = parse_errors + 1
                /\ events' = OnParseError(events, line)
    /\ idx' = idx + 1
    /\ UNCHANGED <<file, pipeline, preserve_order, validation, pc, offset, chunk,
                   successful, failed, retryVars, trace, wsVars, loadVars, mgrVars>>

\* --------------------------------------------------------- Batch Validator
\* ValidationResult::new
NewResult == [is_valid |-> TRUE, errors |-> <<>>, warnings |-> <<>>]

\* ValidationResult::add_error
add_error_only(r, e) == [r EXCEPT !.errors = Append(@, e)]
add_error(r, e) == [r EXCEPT !.is_valid = FALSE, !.errors = Append(@, e)]

\* ValidationResult::add_warning
add_warning(r, w) == [r EXCEPT !.warnings = Append(@, w)]

\* an error or warning text: `Event {at}: {msg}` when at >= 0, else `msg`
Msg(at, m) == [at |-> at, msg |-> m]

RequireKey(r, obj, key) ==
    IF key \notin DOMAIN obj
       THEN add_error(r, Msg(-1, "Event must have a '" \o key \o "' field"))
       ELSE r

validate_event(event) ==
    IF event.kind # "object"
       THEN add_error(NewResult, Msg(-1, "Event must be a JSON object"))
       ELSE RequireKey(RequireKey(RequireKey(NewResult, event.map, "timestamp"),
                                  event.map, "source"),
                       event.map, "data")

LargeBatch == 1000

\* `for error in event_result.errors { result.add_error(format!(...)) }`
RECURSIVE AddErrors(_, _)
AddErrors(r, errs) ==
    IF errs = <<>> THEN r ELSE AddErrors(add_error(r, Head(errs)), Tail(errs))

\* what the body of `for (idx, event) in events.iter().enumerate()` adds for
\* the event at 0-based index i: its errors, prefixed, and its warnings
EventErrors(evs, i) ==
    LET er == validate_event(evs[i + 1])
    IN  IF ~er.is_valid
           THEN [j \in 1..Len(er.errors) |-> Msg(i, er.errors[j].msg)]
           ELSE <<>>

EventWarnings(evs, i) == validate_event(evs[i + 1]).warnings

\* the loop over the events lo..hi (0-based), split in halves
RECURSIVE LoopErrors(_, _, _)
LoopErrors(evs, lo, hi) ==
    IF lo > hi THEN <<>>
    ELSE IF lo = hi THEN EventErrors(evs, lo)
    ELSE LET mid == (lo + hi) \div 2
         IN  LoopErrors(evs, lo, mid) \o LoopErrors(evs, mid + 1, hi)

RECURSIVE LoopWarnings(_, _, _)
LoopWarnings(evs, lo, hi) ==
    IF lo > hi THEN <<>>
    ELSE IF lo = hi THEN EventWarnings(evs, lo)
    ELSE LET mid == (lo + hi) \div 2
         IN  LoopWarnings(evs, lo, mid) \o LoopWarnings(evs, mid + 1, hi)

\* `events.len() > 1000`
TooLargeInclusive(evs) == Len(evs) >= LargeBatch
TooLarge(evs) == Len(evs) > LargeBatch

validate_batch(evs) ==
    IF evs = <<>>
       THEN add_error(NewResult, Msg(-1, "Batch cannot be empty"))
       ELSE LET r0 == IF TooLarge(evs)
                         THEN add_warning(NewResult, Msg(-1, "Large batch size"))
                         ELSE NewResult
                r1 == AddErrors(r0, LoopErrors(evs, 0, Len(evs) - 1))
            IN  [r1 EXCEPT !.warnings = @ \o LoopWarnings(evs, 0, Len(evs) - 1)]

\* ----------------------------------------------------------- pipeline push
\* A pipeline definition, by the shape of the fields validate_pipeline reads:
\* name: absent, not a string, "" or a text; version: absent, not a string
\* or a text; steps: absent, not an array, or an array of steps that are
\* not objects, objects without `type`, or objects with `type`; metadata:
\* absent, not an object or an object.
StepShapes == {"scalar", "untyped", "typed"}
StepLists == UNION {[1..n -> StepShapes] : n \in 0..MaxSteps}
Pipelines ==
    [obj : {TRUE}, name : {"absent", "number", "empty", "text"},
     version : {"absent", "number", "text"},
     steps : [kind : {"absent", "scalar"}, items : {<<>>}]
               \cup [kind : {"array"}, items : StepLists],
     metadata : {"absent", "scalar", "object"}]
    \cup {[obj |-> FALSE, name |-> "absent", version |-> "absent",
           steps |-> [kind |-> "absent", items |-> <<>>], metadata |-> "absent"]}

NoPipeline ==
    [obj |-> FALSE, name |-> "absent", version |-> "absent",
     steps |-> [kind |-> "absent", items |-> <<>>], metadata |-> "absent"]

\* `for (idx, step) in steps_array.iter().enumerate()` from index i on
RECURSIVE ValidateSteps(_, _, _)
ValidateSteps(r, items, i) ==
    IF i > Len(items) THEN r
    ELSE ValidateSteps(
            IF items[i] = "scalar"
               THEN add_error(r, Msg(i - 1, "Step must be an object"))
            ELSE IF items[i] = "untyped"
               THEN add_error(r, Msg(i - 1, "Step must have a 'type' field"))
            ELSE r,
            items, i + 1)

validate_pipeline(p) ==
    IF ~p.obj
       THEN add_error(NewResult, Msg(-1, "Pipeline must be a JSON object"))
       ELSE LET r1 == IF p.name = "absent"
                         THEN add_error(NewResult,
                                        Msg(-1, "Pipeline must have a 'name' field"))
                      ELSE IF p.name \in {"number", "empty"}
                         THEN add_error(NewResult,
                                        Msg(-1, "Pipeline 'name' must be a non-empty string"))
                      ELSE NewResult
                r2 == IF p.version = "absent"
                         THEN add_error(r1, Msg(-1, "Pipeline must have a 'version' field"))
                      ELSE IF p.version = "number"
                         THEN add_error(r1, Msg(-1, "Pipeline 'version' must be a string"))
                      ELSE r1
                r3 == IF p.steps.kind = "absent" THEN r2
                      ELSE IF p.steps.kind = "scalar"
                         THEN add_error(r2, Msg(-1, "Pipeline 'steps' must be an array"))
                      ELSE ValidateSteps(
                              IF p.steps.items = <<>>
                                 THEN add_warning(r2, Msg(-1, "Pipeline has no steps defined"))
                                 ELSE r2,
                              p.steps.items, 1)
            IN  IF p.metadata = "scalar"
                   THEN add_warning(r3, Msg(-1, "Pipeline 'metadata' should be an object"))
                   ELSE r3

\* `if !validation.is_valid { ... bail!(..) }` of push
PushNeverRefuses(v) == FALSE
PushRefuses(v) == ~v.is_valid

\* push: validate_pipeline, the validation gate and the call of push_pipeline
PushValidate ==
    /\ pc = "push"
    /\ validation' = validate_pipeline(pipeline)
    /\ IF PushRefuses(validation')
          THEN /\ pc' = "push_bailed"
               /\ trace' = trace
          ELSE /\ pc' = "pushing"
               /\ trace' = Append(trace, Ev("push", 0, 0))
    /\ UNCHANGED <<readVars, offset, chunk, successful, failed, retryVars,
                   wsVars, loadVars, mgrVars>>

\* `client.push_pipeline(&pipeline).await` resolves
PushCompletes ==
    /\ pc = "pushing"
    /\ \E ok \in BOOLEAN : pc' = IF ok THEN "push_done" ELSE "push_failed"
    /\ UNCHANGED <<readVars, validation, offset, chunk, successful, failed,
                   retryVars, trace, wsVars, loadVars, mgrVars>>

\* ------------------------------------------------------------ Batch Sender
\* the RetryConfig run builds for every batch
FourAttempts ==
    [max_attempts |-> 4, initial_delay |-> 100, max_delay |-> 5000,
     backoff_multiplier |-> [num |-> 2, den |-> 1]]
StreamRetryConfig ==
    [max_attempts |-> 3, initial_delay |-> 100, max_delay |-> 5000,
     backoff_multiplier |-> [num |-> 2, den |-> 1]]

\* RetryConfig::default
DefaultRetryConfig ==
    [max_attempts |-> 3, initial_delay |-> 100, max_delay |-> 30000,
     backoff_multiplier |-> [num |-> 2, den |-> 1]]

\* the chunk of events.chunks(batch_size) that starts after `off` events
ChunkOneMore(evs, off) ==
    SubSeq(evs, off + 1, Min(off + DEFAULT_BATCH_SIZE + 1, Len(evs)))
ChunkAt(evs, off) == SubSeq(evs, off + 1, Min(off + DEFAULT_BATCH_SIZE, Len(evs)))

\* Client::stream_batch, `.json(events)`: the elements of the JSON array
\* that is the body of the request
Payload(batch) == [i \in 1..Len(batch) |-> to_string(batch[i])]

\* `if !validation.is_valid { ... if !validation.errors.is_empty() { bail } }`
NeverRefuses(v) == FALSE
Refuses(v) == ~v.is_valid /\ v.errors # <<>>

\* end of the parse loop; validate_batch and the validation gate
Validate ==
    /\ pc = "read"
    /\ idx = NumLines
    /\ validation' = validate_batch(events)
    /\ IF Refuses(validation')
          THEN pc' = "bailed"
          ELSE pc' = "next_batch"
    /\ UNCHANGED <<readVars, offset, chunk, successful, failed, retryVars, trace,
                   wsVars, loadVars, mgrVars>>

\* the batch loop takes its next chunk and hands it to the Retry Engine
NextBatch ==
    /\ pc = "next_batch"
    /\ offset < Len(events)
    /\ chunk' = chunk + 1
    /\ cfg' = StreamRetryConfig
    /\ rpc' = "start"
    /\ pc' = "retrying"
    /\ UNCHANGED <<readVars, validation, offset, successful, failed,
                   attempt, delay, last_error, result, attempt_errors, trace,
                   wsVars, loadVars, mgrVars>>

\* `successful += batch.len()` / `failed += batch.len()`
CountBatches(n, batch) == n + 1
CountEvents(n, batch) == n + Len(batch)

\* events.chunks(batch_size): the next chunk starts where this one ended
SkipAhead(off, batch) == off + Len(batch) + 1
Advance(off, batch) == off + Len(batch)

\* `match result { Ok(_) => ..., Err(e) => ... }`: both arms fall through to
\* the next iteration of the batch loop
AbortOnFailure(res) == IF res.kind = "err" THEN "bailed" ELSE "next_batch"
AfterOutcome(res) == "next_batch"

\* retry_with_backoff returned (its locals are gone) and the outcome of the
\* batch is counted
RecordOutcome ==
    /\ pc = "retrying"
    /\ rpc = "returned"
    /\ LET batch == ChunkAt(events, offset)
       IN  /\ IF result.kind = "ok"
                 THEN /\ successful' = CountEvents(successful, batch)
                      /\ failed' = failed
                 ELSE /\ failed' = CountEvents(failed, batch)
                      /\ successful' = successful
           /\ offset' = Advance(offset, batch)
           /\ trace' = Append(trace, Ev("recorded", chunk, Len(batch)))
    /\ pc' = AfterOutcome(result)
    /\ rpc' = "idle"
    /\ attempt' = 0
    /\ delay' = 0
    /\ last_error' = <<>>
    /\ attempt_errors' = <<>>
    /\ result' = NoResult
    /\ UNCHANGED <<readVars, validation, chunk, cfg, wsVars, loadVars, mgrVars>>

\* no chunk is left: the totals are reported and run returns Ok
Finish ==
    /\ pc = "next_batch"
    /\ offset = Len(events)
    /\ pc' = "done"
    /\ UNCHANGED <<readVars, validation, offset, chunk, successful, failed,
                   retryVars, trace, wsVars, loadVars, mgrVars>>

\* ---------------------------------------------------- Duplex Stream Client
\* WebSocketClient::new sets reconnect_interval (seconds)
reconnect_interval == 5

\* a URL is a sequence of pieces; a scheme prefix is one piece
IngestUrls ==
    { <<"https://", "gw.example.com">>, <<"http://", "localhost:8080">>,
      <<"gw.example.com">>, <<"https://", "api.pynthora.network", "/ingest">> }

\* str::replace(from, to) over the pieces
replace(u, from, to) == [i \in 1..Len(u) |-> IF u[i] = from THEN to ELSE u[i]]

\* WebSocketClient::build_ws_url
build_ws_url(u) ==
    Append(replace(replace(u, "https://", "wss://"), "http://", "ws://"), "/ws/stream")

Schemes == {"https://", "http://", "wss://", "ws://"}

\* Url::parse succeeds on an absolute URL
UrlParses(u) == u # <<>> /\ u[1] \in Schemes /\ Len(u) >= 2 /\ u[2] \notin Schemes

api_key == "key"
workspace == "default"

PingPayloads == {"", "ka"}

\* what `read.next().await` may yield
Inbound ==
    [kind : {"text"}, payload : {"json:handler-ok", "json:handler-err", "not-json"}]
    \cup [kind : {"ping"}, payload : PingPayloads]
    \cup [kind : {"close", "binary", "error", "end"}, payload : {""}]

WsEv(e, k, p, v) == [ev |-> e, conn |-> conn, kind |-> k, payload |-> p, val |-> v]

\* the frame the client writes in answer to a ping
EmptyPong(data) == [kind |-> "pong", payload |-> ""]
PongFor(data) == [kind |-> "pong", payload |-> data]

\* the auth message: {"type":"auth","api_key":..,"workspace":..}
AuthWithoutKey == [kind |-> "auth", payload |-> workspace]
AuthFrame == [kind |-> "auth", payload |-> api_key \o "/" \o workspace]

Received == Cardinality({i \in 1..Len(ws_trace) : ws_trace[i].ev = "recv"})

\* connect_once returned Err: connect_and_stream logs it and sleeps
ConnectionFails(evs) ==
    /\ ws_trace' = ws_trace \o evs \o <<WsEv("sleep", "", "", reconnect_interval)>>
    /\ ws_pc' = "sleeping"

\* connect_and_stream up to the first call of connect_once
BuildWsUrl ==
    /\ ws_pc = "start"
    /\ ws_url' = build_ws_url(ingest_url)
    /\ ws_pc' = "connect"
    /\ UNCHANGED <<ingest_url, conn, ws_trace, runVars, retryVars, trace,
                   loadVars, mgrVars>>

\* connect_once: Url::parse and connect_async; on success the auth message
\* is handed to the sink
Connect ==
    /\ ws_pc = "connect"
    /\ conn < MaxConnects
    /\ conn' = conn + 1
    /\ LET c == [ev |-> "connect_once", conn |-> conn + 1, kind |-> "",
                 payload |-> "", val |-> 0]
           f(e, k, p, v) == [ev |-> e, conn |-> conn + 1, kind |-> k,
                             payload |-> p, val |-> v]
       IN  IF ~UrlParses(ws_url)
              THEN /\ ws_trace' = ws_trace \o
                                    <<c, f("parse_failed", "", "", 0),
                                      f("sleep", "", "", reconnect_interval)>>
                   /\ ws_pc' = "sleeping"
              ELSE \E ok \in BOOLEAN :
                     IF ok
                        THEN /\ ws_trace' = ws_trace \o
                                  <<c, f("send", AuthFrame.kind, AuthFrame.payload, 0)>>
                             /\ ws_pc' = "auth_send"
                        ELSE /\ ws_trace' = ws_trace \o
                                  <<c, f("connect_failed", "", "", 0),
                                    f("sleep", "", "", reconnect_interval)>>
                             /\ ws_pc' = "sleeping"
    /\ UNCHANGED <<ingest_url, ws_url, runVars, retryVars, trace, loadVars, mgrVars>>

\* `Ok(Message::Close(_)) => break`, then Ok(()) up to connect_and_stream
OnCloseReconnect(r) == ConnectionFails(<<r>>)
OnClose(r) ==
    /\ ws_trace' = Append(ws_trace, r)
    /\ ws_pc' = "returned"

\* stream_websocket(config, _events): the events it is given are not used, so
\* no frame is written for them
SendEvents(evs) == [i \in 1..Len(evs) |-> WsEv("send", "text", "event", 0)]
FramesForEvents(evs) == <<>>

\* `write.send(auth).await?` resolves
AuthSent ==
    /\ ws_pc = "auth_send"
    /\ \E ok \in BOOLEAN :
         IF ok
            THEN /\ ws_pc' = "reading"
                 /\ ws_trace' = ws_trace \o FramesForEvents(events)
            ELSE ConnectionFails(<<WsEv("send_failed", "auth", "", 0)>>)
    /\ UNCHANGED <<ingest_url, ws_url, conn, runVars, retryVars, trace,
                   loadVars, mgrVars>>

\* the Text arm: a parse error and a handler error are only logged, and the
\* loop reads on
TextFaultReturns(p) == IF p = "json:handler-ok" THEN "reading" ELSE "sleeping"
AfterText(p) == "reading"

\* `read.next().await` resolves and the match arm runs up to its next await
Receive ==
    /\ ws_pc = "reading"
    /\ Received < MaxInbound
    /\ \E m \in Inbound :
         LET r == WsEv("recv", m.kind, m.payload, 0)
         IN  CASE m.kind = "text" ->
                    /\ ws_trace' = ws_trace \o
                         (IF m.payload = "not-json"
                             THEN <<r>>
                             ELSE <<r, WsEv("handle", "text", m.payload, 0)>>)
                    /\ ws_pc' = AfterText(m.payload)
               [] m.kind = "close" -> OnClose(r)
               [] m.kind = "end" ->
                    /\ ws_trace' = Append(ws_trace, r)
                    /\ ws_pc' = "returned"
               [] m.kind = "ping" ->
                    /\ ws_trace' = ws_trace \o
                         <<r, WsEv("send", PongFor(m.payload).kind,
                                   PongFor(m.payload).payload, 0)>>
                    /\ ws_pc' = "pong_send"
               [] m.kind = "error" -> ConnectionFails(<<r>>)
               [] OTHER ->
                    /\ ws_trace' = Append(ws_trace, r)
                    /\ ws_pc' = "reading"
    /\ UNCHANGED <<ingest_url, ws_url, conn, runVars, retryVars, trace,
                   loadVars, mgrVars>>

\* `write.send(Message::Pong(data)).await?` resolves
PongSent ==
    /\ ws_pc = "pong_send"
    /\ \E ok \in BOOLEAN :
         IF ok
            THEN /\ ws_pc' = "reading"
                 /\ ws_trace' = ws_trace
            ELSE ConnectionFails(<<WsEv("send_failed", "pong", "", 0)>>)
    /\ UNCHANGED <<ingest_url, ws_url, conn, runVars, retryVars, trace,
                   loadVars, mgrVars>>

\* the reconnect sleep is over: the loop calls connect_once again
GiveUpAfterSleep ==
    /\ ws_pc = "sleeping"
    /\ ws_pc' = "returned"
    /\ UNCHANGED <<ingest_url, ws_url, conn, ws_trace, runVars, retryVars, trace,
                   loadVars, mgrVars>>

ReconnectSleepDone ==
    /\ ws_pc = "sleeping"
    /\ ws_pc' = "connect"
    /\ UNCHANGED <<ingest_url, ws_url, conn, ws_trace, runVars, retryVars, trace,
                   loadVars, mgrVars>>

\* -------------------------------------------------------------- Config::load
\* what from_env or from_file builds: the configuration of the environment
\* variables, of the file at the custom path or of the file found in the
\* current directory
Loaders == 1..MaxLoaders
PathArgs == {"custom", "none"}
Environments == {"env", "file", "none"}

NotCalled == [kind |-> "none", config |-> ""]
OkConfig(c) == [kind |-> "ok", config |-> c]
ErrConfig(e) == [kind |-> "err", config |-> e]

\* from_env()?, then resolve_config_path(custom_path)? and from_file(..)?
BuildConfig(arg) ==
    IF environment = "env" THEN OkConfig("from_env")
    ELSE IF environment = "file"
       THEN OkConfig(IF arg = "custom" THEN "from_custom_path" ELSE "from_pynthorarc")
    ELSE ErrConfig("No configuration found")

\* CACHED_CONFIG.set(config).map_err(|_| anyhow!("Failed to cache config"))?
SetOrFail(cache, c) ==
    IF cache = <<>> THEN OkConfig(c) ELSE ErrConfig("Failed to cache config")

\* a task calls Config::load(custom_path)
LoadCall(t) ==
    /\ loaders[t].pc = "idle"
    /\ loaders' = [loaders EXCEPT ![t].pc = "get"]
    /\ UNCHANGED <<environment, CACHED_CONFIG, runVars, retryVars, trace, wsVars,
                   mgrVars>>

\* `if let Some(config) = CACHED_CONFIG.get() { return Ok(config) }`
LoadGet(t) ==
    /\ loaders[t].pc = "get"
    /\ loaders' =
         IF CACHED_CONFIG # <<>>
            THEN [loaders EXCEPT ![t].pc = "done",
                                 ![t].ret = OkConfig(CACHED_CONFIG[1])]
            ELSE [loaders EXCEPT ![t].pc = "build"]
    /\ UNCHANGED <<environment, CACHED_CONFIG, runVars, retryVars, trace, wsVars,
                   mgrVars>>

\* from_env / resolve_config_path / from_file: the task builds its own Config
LoadBuild(t) ==
    /\ loaders[t].pc = "build"
    /\ LET b == BuildConfig(loaders[t].arg)
       IN  loaders' =
             IF b.kind = "ok"
                THEN [loaders EXCEPT ![t].pc = "set", ![t].local = b.config]
                ELSE [loaders EXCEPT ![t].pc = "done", ![t].ret = b]
    /\ UNCHANGED <<environment, CACHED_CONFIG, runVars, retryVars, trace, wsVars,
                   mgrVars>>

\* CACHED_CONFIG.set(config) and the return of load
LoadSet(t) ==
    /\ loaders[t].pc = "set"
    /\ CACHED_CONFIG' =
         IF CACHED_CONFIG = <<>> THEN <<loaders[t].local>> ELSE CACHED_CONFIG
    /\ loaders' = [loaders EXCEPT ![t].pc = "done",
                                  ![t].ret = SetOrFail(CACHED_CONFIG, loaders[t].local)]
    /\ UNCHANGED <<environment, runVars, retryVars, trace, wsVars, mgrVars>>

\* ---- core::workspace: WorkspaceManager
\* names and credentials of the workspaces a caller may add; the other two
\* fields of Workspace (ingest_url, description) are stored the same way
WorkspaceNames == {"dev", "prod"}
ApiKeys == {"k1", "k2"}
Workspaces == [name : WorkspaceNames, api_key : ApiKeys]

\* HashMap::new() and HashMap::insert(workspace.name.clone(), workspace)
NoWorkspaces == [n \in {} |-> [name |-> n, api_key |-> ""]]
insert(m, w) ==
    [n \in DOMAIN m \cup {w.name} |-> IF n = w.name THEN w ELSE m[n]]

\* the workspace file: absent, holding what toml::to_string(self) gave, or
\* cut short by a write that failed after the file was truncated
NoFile == [kind |-> "absent"]
CutShort == [kind |-> "partial"]
to_toml(m, c) == [kind |-> "toml", workspaces |-> m, current |-> c]

\* save: the ways it ends. "ok" or the `?` that returns the error
SaveOutcomes == {"ok", "home_dir", "create_dir_all", "to_string", "open", "write"}
SaveError(o) ==
    CASE o = "home_dir" -> "Failed to get home directory"
      [] o = "create_dir_all" -> "io error"
      [] o = "to_string" -> "Failed to serialize workspace manager"
      [] OTHER -> "Failed to write workspace file"

\* the file save leaves behind when called on the manager (m, c)
save(f, m, c, o) ==
    CASE o = "ok" -> to_toml(m, c)
      [] o = "write" -> CutShort
      [] OTHER -> f

MgrOk(op, arg) == [op |-> op, arg |-> arg, kind |-> "ok", error |-> ""]
MgrErr(op, arg, e) == [op |-> op, arg |-> arg, kind |-> "err", error |-> e]
MgrNotCalled == [op |-> "none", arg |-> "", kind |-> "none", error |-> ""]
SaveResult(op, arg, o) ==
    IF o = "ok" THEN MgrOk(op, arg) ELSE MgrErr(op, arg, SaveError(o))

\* add_workspace: insert into the map, then save()?
add_workspace(w) ==
    \E o \in SaveOutcomes :
        /\ workspaces' = insert(workspaces, w)
        /\ current' = current
        /\ workspace_file' = save(workspace_file, insert(workspaces, w), current, o)
        /\ mgr_ret' = SaveResult("add_workspace", w.name, o)
        /\ UNCHANGED <<runVars, retryVars, trace, wsVars, loadVars>>

\* set_current: refuse a name that is not in the map, else set `current`,
\* then save()?
set_current(n) ==
    /\ IF n \notin DOMAIN workspaces
          THEN /\ mgr_ret' = MgrErr("set_current", n, "Workspace not found")
               /\ UNCHANGED <<workspaces, current, workspace_file>>
          ELSE \E o \in SaveOutcomes :
                 /\ current' = <<n>>
                 /\ workspaces' = workspaces
                 /\ workspace_file' = save(workspace_file, workspaces, <<n>>, o)
                 /\ mgr_ret' = SaveResult("set_current", n, o)
    /\ UNCHANGED <<runVars, retryVars, trace, wsVars, loadVars>>

\* WorkspaceManager::load() with no workspace file yet
MgrIdle ==
    /\ workspaces = NoWorkspaces
    /\ current = <<>>
    /\ workspace_file = NoFile
    /\ mgr_ret = MgrNotCalled

LoadIdle ==
    /\ environment = "none"
    /\ CACHED_CONFIG = <<>>
    /\ loaders = [t \in Loaders |->
                    [pc |-> "done", arg |-> "none", local |-> "", ret |-> NotCalled]]

WsIdle ==
    /\ ingest_url = <<>>
    /\ ws_url = <<>>
    /\ ws_pc = "idle"
    /\ conn = 0
    /\ ws_trace = <<>>

Init ==
    /\ WsIdle
    /\ LoadIdle
    /\ MgrIdle
    /\ file \in Files
    /\ pipeline = NoPipeline
    /\ preserve_order \in BOOLEAN
    /\ idx = 0
    /\ events = <<>>
    /\ parse_errors = 0
    /\ validation = NewResult
    /\ pc = "read"
    /\ offset = 0
    /\ chunk = 0
    /\ successful = 0
    /\ failed = 0
    /\ cfg = DefaultRetryConfig
    /\ rpc = "idle"
    /\ attempt = 0
    /\ delay = 0
    /\ last_error = <<>>
    /\ attempt_errors = <<>>
    /\ result = NoResult
    /\ trace = <<>>

Next ==
    \/ ReadLine
    \/ Validate
    \/ NextBatch
    \/ RetryStart
    \/ OpCompletes
    \/ SleepCompletes
    \/ RecordOutcome
    \/ Finish

Spec == Init /\ [][Next]_vars

\* run when every await eventually resolves: a request attempt completes, a
\* sleep ends, and the task itself keeps running
\* (the number of batches decides how long run goes on, so one free line at
\* the head of the file is enough here)
LiveInit == Init /\ Len(file.head) <= 1

LiveSpec == LiveInit /\ [][Next]_vars /\ WF_vars(Next)

\* the Retry Engine on its own, under every RetryConfig
RunIdle ==
    /\ file = [head |-> <<>>, pad |-> 0]
    /\ pipeline = NoPipeline
    /\ preserve_order = FALSE
    /\ idx = 0
    /\ events = <<>>
    /\ parse_errors = 0
    /\ validation = NewResult
    /\ pc = "idle"
    /\ offset = 0
    /\ chunk = 0
    /\ successful = 0
    /\ failed = 0

RetryInit ==
    /\ WsIdle
    /\ LoadIdle
    /\ MgrIdle
    /\ RunIdle
    /\ cfg \in RetryConfigs
    /\ rpc = "start"
    /\ attempt = 0
    /\ delay = 0
    /\ last_error = <<>>
    /\ attempt_errors = <<>>
    /\ result = NoResult
    /\ trace = <<>>

RetryNext == RetryStart \/ OpCompletes \/ SleepCompletes

RetrySpec == RetryInit /\ [][RetryNext]_vars

\* `pipeline push` and `stream`, the two callers of the validators
PushInit ==
    /\ WsIdle
    /\ LoadIdle
    /\ MgrIdle
    /\ file = [head |-> <<>>, pad |-> 0]
    /\ pipeline \in Pipelines
    /\ preserve_order = FALSE
    /\ idx = 0
    /\ events = <<>>
    /\ parse_errors = 0
    /\ validation = NewResult
    /\ pc = "push"
    /\ offset = 0
    /\ chunk = 0
    /\ successful = 0
    /\ failed = 0
    /\ cfg = DefaultRetryConfig
    /\ rpc = "idle"
    /\ attempt = 0
    /\ delay = 0
    /\ last_error = <<>>
    /\ attempt_errors = <<>>
    /\ result = NoResult
    /\ trace = <<>>

GateInit == Init \/ PushInit

GateNext == Next \/ PushValidate \/ PushCompletes

GateSpec == GateInit /\ [][GateNext]_vars

\* validate_batch on its own, on batches around the large-batch threshold
EventKinds ==
    {from_str(LGoodA).value, from_str(LGoodB).value, from_str(LNoData).value,
     from_str(LNumber).value, from_str(LTelemetry).value}
BatchHeads == UNION {[1..n -> EventKinds] : n \in 0..MaxBatchHead}
BatchPads == {0, 1, LargeBatch - 1, LargeBatch, LargeBatch + 1}
Batches ==
    {h \o [i \in 1..p |-> from_str(LGoodA).value] : h \in BatchHeads, p \in BatchPads}

ValidateInit ==
    /\ WsIdle
    /\ LoadIdle
    /\ MgrIdle
    /\ file = [head |-> <<>>, pad |-> 0]
    /\ pipeline = NoPipeline
    /\ preserve_order \in BOOLEAN
    /\ idx = 0
    /\ events \in Batches
    /\ parse_errors = 0
    /\ validation = NewResult
    /\ pc = "batch"
    /\ offset = 0
    /\ chunk = 0
    /\ successful = 0
    /\ failed = 0
    /\ cfg = DefaultRetryConfig
    /\ rpc = "idle"
    /\ attempt = 0
    /\ delay = 0
    /\ last_error = <<>>
    /\ attempt_errors = <<>>
    /\ result = NoResult
    /\ trace = <<>>

\* a call of validate_batch
ValidateBatchCall ==
    /\ pc = "batch"
    /\ validation' = validate_batch(events)
    /\ pc' = "checked"
    /\ UNCHANGED <<readVars, offset, chunk, successful, failed, retryVars, trace,
                   wsVars, loadVars, mgrVars>>

ValidateNext == ValidateBatchCall

ValidateSpec == ValidateInit /\ [][ValidateNext]_vars

\* Config::load called by several tasks, in every interleaving
LoadInit ==
    /\ WsIdle
    /\ RunIdle
    /\ cfg = DefaultRetryConfig
    /\ rpc = "idle"
    /\ attempt = 0
    /\ delay = 0
    /\ last_error = <<>>
    /\ attempt_errors = <<>>
    /\ result = NoResult
    /\ trace = <<>>
    /\ MgrIdle
    /\ environment \in Environments
    /\ CACHED_CONFIG = <<>>
    /\ loaders \in [Loaders -> [pc : {"idle"}, arg : PathArgs, local : {""},
                                ret : {NotCalled}]]

LoadNext == \E t \in Loaders : LoadCall(t) \/ LoadGet(t) \/ LoadBuild(t) \/ LoadSet(t)

LoadSpec == LoadInit /\ [][LoadNext]_vars

MgrInit ==
    /\ WsIdle
    /\ LoadIdle
    /\ MgrIdle
    /\ RunIdle
    /\ cfg = DefaultRetryConfig
    /\ rpc = "idle"
    /\ attempt = 0
    /\ delay = 0
    /\ last_error = <<>>
    /\ attempt_errors = <<>>
    /\ result = NoResult
    /\ trace = <<>>

MgrNext ==
    \/ \E w \in Workspaces : add_workspace(w)
    \/ \E n \in WorkspaceNames : set_current(n)

MgrSpec == MgrInit /\ [][MgrNext]_vars

\* the Duplex Stream Client on its own
WsEvents == {<<>>, <<from_str(LGoodA).value, from_str(LGoodB).value>>}

WsInit ==
    /\ file = [head |-> <<>>, pad |-> 0]
    /\ pipeline = NoPipeline
    /\ preserve_order = FALSE
    /\ idx = 0
    /\ events \in WsEvents
    /\ parse_errors = 0
    /\ validation = NewResult
    /\ pc = "idle"
    /\ offset = 0
    /\ chunk = 0
    /\ successful = 0
    /\ failed = 0
    /\ LoadIdle
    /\ MgrIdle
    /\ cfg = DefaultRetryConfig
    /\ rpc = "idle"
    /\ attempt = 0
    /\ delay = 0
    /\ last_error = <<>>
    /\ attempt_errors = <<>>
    /\ result = NoResult
    /\ trace = <<>>
    /\ ingest_url \in IngestUrls
    /\ ws_url = <<>>
    /\ ws_pc = "start"
    /\ conn = 0
    /\ ws_trace = <<>>

WsNext ==
    \/ BuildWsUrl
    \/ Connect
    \/ AuthSent
    \/ Receive
    \/ PongSent
    \/ ReconnectSleepDone

WsSpec == WsInit /\ [][WsNext]_vars

\* ================================================================ properties
\* number of events of a history that satisfy a test
CountEv(tr, Test(_)) == Cardinality({i \in 1..Len(tr) : Test(tr[i])})

Calls == CountEv(trace, LAMBDA e : e.ev = "call")
Errs == CountEv(trace, LAMBDA e : e.ev = "err")
Oks == CountEv(trace, LAMBDA e : e.ev = "ok")
SleepEvents == SelectSeq(trace, LAMBDA e : e.ev = "sleep")
Slept == [i \in 1..Len(SleepEvents) |-> SleepEvents[i].val]

\* ---- Batch Sender
NumChunks == (Len(events) + DEFAULT_BATCH_SIZE - 1) \div DEFAULT_BATCH_SIZE
ChunkLen(k) == Min(DEFAULT_BATCH_SIZE, Len(events) - (k - 1) * DEFAULT_BATCH_SIZE)
Attempted(k) == \E i \in 1..Len(trace) : trace[i].ev = "call" /\ trace[i].batch = k
Delivered(k) == \E i \in 1..Len(trace) : trace[i].ev = "ok" /\ trace[i].batch = k
Exhausted(k) ==
    CountEv(trace, LAMBDA e : e.ev = "err" /\ e.batch = k) = StreamRetryConfig.max_attempts

RECURSIVE SumLen(_)
SumLen(S) == IF S = {} THEN 0 ELSE LET k == CHOOSE x \in S : TRUE
                                   IN  ChunkLen(k) + SumLen(S \ {k})

\* C1: when the run is over every batch was attempted and ended either
\* delivered or with its attempts exhausted, whatever the position of the
\* failing batches; successful is the number of events of the delivered
\* batches, failed the number of events of the exhausted ones, and together
\* they are the number of validated events.
C1_PartialFailureAccounting ==
    pc = "done" =>
        /\ \A k \in 1..NumChunks : Attempted(k) /\ (Delivered(k) # Exhausted(k))
        /\ successful = SumLen({k \in 1..NumChunks : Delivered(k)})
        /\ failed = SumLen({k \in 1..NumChunks : Exhausted(k)})
        /\ successful + failed = Len(events)

C1_Witness ==
    /\ pc = "done"
    /\ NumChunks = 2
    /\ Exhausted(1) /\ Delivered(2)
    /\ failed = DEFAULT_BATCH_SIZE
    /\ successful = Len(events) - DEFAULT_BATCH_SIZE

\* ---- Retry Engine
\* C2: an operation that fails on every attempt (max_attempts >= 1) is
\* invoked exactly max_attempts times with exactly one sleep between two
\* consecutive attempts, none before the first and none after the last, and
\* the engine returns the aggregate failure; under 3 attempts, 100 ms, x2,
\* 5 s the sleeps are 100 ms then 200 ms.
C2_AlwaysFailing ==
    (rpc = "returned" /\ result.kind = "err" /\ cfg.max_attempts >= 1) =>
        /\ Oks = 0
        /\ Calls = cfg.max_attempts
        /\ Len(Slept) = cfg.max_attempts - 1
        /\ Len(trace) = 3 * cfg.max_attempts - 1
        /\ \A j \in 1..cfg.max_attempts :
             /\ trace[3 * j - 2].ev = "call"
             /\ trace[3 * j - 1].ev = "err"
             /\ j < cfg.max_attempts => trace[3 * j].ev = "sleep"
        /\ cfg = StreamRetryConfig => Slept = <<100, 200>>

C2_Witness ==
    /\ rpc = "returned"
    /\ result.kind = "err"
    /\ cfg = StreamRetryConfig
    /\ Calls = 3
    /\ Slept = <<100, 200>>

\* C3: the engine returns success exactly when an attempt succeeded; if that
\* was attempt k, the operation was invoked k times, k-1 attempts failed,
\* k-1 delays were slept, and the success is the last thing that happened:
\* no invocation and no sleep follows it.
C3_EventualSuccess ==
    /\ (Oks > 0) <=> (result.kind = "ok")
    /\ result.kind = "ok" =>
         /\ rpc = "returned"
         /\ result = OkResult
         /\ Oks = 1
         /\ Calls \in 1..cfg.max_attempts
         /\ trace[Len(trace)] = Ev("ok", chunk, Calls)
         /\ Errs = Calls - 1
         /\ Len(Slept) = Calls - 1

C3_Witness ==
    /\ result.kind = "ok"
    /\ rpc = "returned"
    /\ Calls = 2
    /\ Errs = 1
    /\ Len(Slept) = 1

RECURSIVE Pow(_, _)
Pow(b, n) == IF n = 0 THEN 1 ELSE b * Pow(b, n - 1)

\* C4: the n-th delay slept is min(initial_delay * multiplier^(n-1),
\* max_delay), with multiplier = num/den, and so never exceeds max_delay.
C4_DelayFormula ==
    \A n \in 1..Len(Slept) :
        /\ Slept[n] * Pow(cfg.backoff_multiplier.den, n - 1)
             = Min(cfg.initial_delay * Pow(cfg.backoff_multiplier.num, n - 1),
                   cfg.max_delay * Pow(cfg.backoff_multiplier.den, n - 1))
        /\ Slept[n] <= cfg.max_delay

\* ---- Duplex Stream Client
Last(tr) == tr[Len(tr)]

TransportError(e) ==
    \/ e.ev = "connect_failed"
    \/ e.ev = "send_failed"
    \/ e.ev = "recv" /\ e.kind = "error"

\* C5: every transport error (failed connect, failed send of the auth or
\* pong frame, error while receiving) is followed by exactly one sleep of
\* reconnect_interval and then by a new call of connect_once; nothing more
\* happens on the failed connection, every sleep has the same length, and
\* the client never returns because of an error, however many there were.
C5_Reconnect ==
    /\ \A i \in 1..Len(ws_trace) :
         TransportError(ws_trace[i]) =>
           /\ i + 1 <= Len(ws_trace)
           /\ ws_trace[i + 1].ev = "sleep"
           /\ ws_trace[i + 1].val = reconnect_interval
           /\ i + 2 <= Len(ws_trace) =>
                /\ ws_trace[i + 2].ev = "connect_once"
                /\ ws_trace[i + 2].conn = ws_trace[i].conn + 1
           /\ \A j \in (i + 2)..Len(ws_trace) : ws_trace[j].conn > ws_trace[i].conn
           /\ i + 1 = Len(ws_trace) => ws_pc \in {"sleeping", "connect"}
    /\ \A i \in 1..Len(ws_trace) :
         ws_trace[i].ev = "sleep" => ws_trace[i].val = reconnect_interval
    /\ ws_pc = "returned" =>
         Last(ws_trace).ev = "recv" /\ Last(ws_trace).kind \in {"close", "end"}

C5_Witness ==
    /\ conn = MaxConnects
    /\ ws_pc = "reading"
    /\ \E i \in 1..Len(ws_trace) : ws_trace[i].ev = "connect_failed"
    /\ \E i \in 1..Len(ws_trace) :
         ws_trace[i].ev = "send_failed" /\ ws_trace[i].kind = "pong"
    /\ CountEv(ws_trace, LAMBDA e : e.ev = "sleep") = MaxConnects - 1

\* C6: an inbound close frame is the last thing that happens: the call has
\* returned, and no sleep and no connection attempt follows the frame.
C6_NormalClose ==
    \A i \in 1..Len(ws_trace) :
        (ws_trace[i].ev = "recv" /\ ws_trace[i].kind = "close") =>
            i = Len(ws_trace) /\ ws_pc = "returned"

C6_Witness ==
    /\ ws_pc = "returned"
    /\ Last(ws_trace).ev = "recv" /\ Last(ws_trace).kind = "close"
    /\ conn = 2
    /\ CountEv(ws_trace, LAMBDA e : e.ev = "sleep") = 1

\* C7: a received ping with payload P is directly followed by the client
\* writing a pong with payload P on the same connection, and when that
\* write does not fail the next thing is a read on the same connection.
C7_PingPong ==
    \A i \in 1..Len(ws_trace) :
        (ws_trace[i].ev = "recv" /\ ws_trace[i].kind = "ping") =>
            /\ i + 1 <= Len(ws_trace)
            /\ ws_trace[i + 1].ev = "send"
            /\ ws_trace[i + 1].kind = "pong"
            /\ ws_trace[i + 1].payload = ws_trace[i].payload
            /\ ws_trace[i + 1].conn = ws_trace[i].conn
            /\ i + 1 = Len(ws_trace) =>
                 ws_pc \in {"pong_send", "reading"} /\ conn = ws_trace[i].conn
            /\ (i + 2 <= Len(ws_trace) /\ ws_trace[i + 2].ev # "send_failed") =>
                 ws_trace[i + 2].ev = "recv" /\ ws_trace[i + 2].conn = ws_trace[i].conn

C7_Witness ==
    \E i \in 1..Len(ws_trace) :
        /\ ws_trace[i].ev = "recv" /\ ws_trace[i].kind = "ping"
        /\ ws_trace[i].payload = "ka"
        /\ i + 2 <= Len(ws_trace)
        /\ ws_trace[i + 2].ev = "recv"
        /\ ws_trace[i + 2].conn = ws_trace[i].conn

\* ---- Event Reader
IsBlank(l) == \A i \in 1..Len(l) : l[i].t = "ws"
Malformed(l) == ~IsBlank(l) /\ ~from_str(l).ok
WellFormed(l) == ~IsBlank(l) /\ from_str(l).ok

\* C8: the loop iteration over a blank or whitespace-only line leaves the
\* events and the parse-error count as they were, wherever the line stands.
C8_BlankLines ==
    [][(pc = "read" /\ idx < NumLines /\ IsBlank(LineAt(idx + 1)))
          => (events' = events /\ parse_errors' = parse_errors)]_vars

C8_Witness ==
    /\ pc = "read"
    /\ idx = 2
    /\ NumLines > 2
    /\ Malformed(LineAt(1))
    /\ LineAt(2) = LSpaces
    /\ parse_errors = 1
    /\ events = <<>>

\* C9: when the whole input is read, parse_errors is the number of malformed
\* (non-blank, unparsable) lines, and events holds the values of the
\* well-formed lines, each once, in source order.
C9_SkipAndCount ==
    (pc = "read" /\ idx = NumLines) =>
        LET wf == SelectSeq([i \in 1..NumLines |-> LineAt(i)], WellFormed)
        IN  /\ parse_errors = Cardinality({i \in 1..NumLines : Malformed(LineAt(i))})
            /\ events = [i \in 1..Len(wf) |-> from_str(wf[i]).value]

C9_Witness ==
    /\ pc = "read"
    /\ idx = NumLines
    /\ idx > 2
    /\ WellFormed(LineAt(1)) /\ Malformed(LineAt(2)) /\ WellFormed(LineAt(3))
    /\ parse_errors = 1
    /\ Len(events) = idx - 1
    /\ events[1] # events[2]

\* ---- Batch Validator
\* validate_batch has just returned
Validated == pc = "bailed" \/ (pc = "next_batch" /\ chunk = 0)

\* C10 as stated: the result of validate_batch is an error iff the batch is
\* empty.
C10_ErrorIffEmpty ==
    Validated => ((~validation.is_valid) <=> (events = <<>>))

\* C10, amended: the result of validate_batch is an error iff the batch is
\* empty or at least one of its events fails per-event validation.
C10_ErrorIffEmptyOrInvalidEvent ==
    Validated =>
        ((~validation.is_valid) <=>
            (events = <<>> \/ \E i \in 1..Len(events) : ~validate_event(events[i]).is_valid))

C10_Witness ==
    /\ Validated
    /\ Len(events) > DEFAULT_BATCH_SIZE
    /\ ~validation.is_valid
    /\ \E i \in 1..Len(events) : events[i].kind = "object" /\ "data" \notin DOMAIN events[i].map

StructurallyValid(e) ==
    e.kind = "object" /\ {"timestamp", "source", "data"} \subseteq DOMAIN e.map

\* C11: for a non-empty batch of structurally valid events validate_batch
\* returns is_valid = TRUE and no error, with exactly one warning when the
\* batch has more than 1000 events and no warning when it has 1..1000.
C11_SizeWarning ==
    (pc = "checked" /\ events # <<>>
       /\ \A i \in 1..Len(events) : StructurallyValid(events[i])) =>
        /\ validation.is_valid
        /\ validation.errors = <<>>
        /\ Len(events) > 1000 => Len(validation.warnings) = 1
        /\ Len(events) <= 1000 => validation.warnings = <<>>

C11_Witness ==
    /\ pc = "checked"
    /\ Len(events) = 1001
    /\ \A i \in 1..Len(events) : StructurallyValid(events[i])
    /\ validation.is_valid
    /\ Len(validation.warnings) = 1

\* ---- validation gate
Requests == CountEv(trace, LAMBDA e : e.ev \in {"call", "push"})
PushValidated == pc \in {"push_bailed", "pushing", "push_done", "push_failed"}
RunValidated == pc \in {"bailed", "next_batch", "retrying", "done"}

JustCalled == trace # <<>> /\ Last(trace).ev = "call"

\* C13: whenever a request is issued it is for the batch that starts at
\* offset (chunk - 1) * batch size of the parsed events, nothing of a later
\* batch has happened before it, every earlier batch has its outcome
\* recorded before it (the counters cover exactly the events before the
\* batch), and the batch itself has no outcome recorded yet.
C13_BatchOrdering ==
    JustCalled =>
        LET n == Len(trace)
            k == trace[n].batch
        IN  /\ k = chunk
            /\ offset = (k - 1) * DEFAULT_BATCH_SIZE
            /\ successful + failed = offset
            /\ \A j \in 1..(n - 1) :
                  /\ trace[j].batch <= k
                  /\ trace[j].ev = "recorded" => trace[j].batch < k
            /\ \A b \in 1..(k - 1) :
                  \E j \in 1..(n - 1) :
                      trace[j].ev = "recorded" /\ trace[j].batch = b

C13_Witness ==
    /\ JustCalled
    /\ Last(trace).batch = 2
    /\ Last(trace).val = 2
    /\ successful = 0
    /\ failed = DEFAULT_BATCH_SIZE

\* ---- round trip
\* the line the k-th parsed event was read from
SourceOf(k) ==
    LET wf == SelectSeq(file.head, WellFormed)
    IN  IF k <= Len(wf) THEN wf[k] ELSE LGoodA

\* C14: in every request, an event read from the line
\* {"timestamp":1,"source":"s","data":{}} passes validate_event and its
\* text in the body of the request is that line, token for token.
C14_RoundTrip ==
    (JustCalled /\ pc = "retrying") =>
        LET batch == ChunkAt(events, offset)
        IN  \A i \in 1..Len(batch) :
                SourceOf(offset + i) = LGoodA =>
                    /\ validate_event(batch[i]).is_valid
                    /\ Payload(batch)[i] = LGoodA

\* the same line, in a build where the Map keeps the order of insertion
C14_RoundTripPreserved ==
    (JustCalled /\ pc = "retrying" /\ preserve_order) =>
        LET batch == ChunkAt(events, offset)
        IN  \A i \in 1..Len(batch) :
                SourceOf(offset + i) = LGoodA =>
                    /\ validate_event(batch[i]).is_valid
                    /\ Payload(batch)[i] = LGoodA

\* ---- aggregate retry error
\* C15: when retry_with_backoff has returned an error, the error carries
\* max_attempts as its attempt count and, as its only description, the one
\* of the error of the last attempt ("Unknown error" when no attempt ran).
C15_LastErrorOnly ==
    (rpc = "returned" /\ result.kind = "err") =>
        /\ result.attempts = cfg.max_attempts
        /\ Len(attempt_errors) = cfg.max_attempts
        /\ result.last = IF attempt_errors = <<>> THEN "Unknown error" ELSE Last(attempt_errors)

C15_Witness ==
    /\ rpc = "returned"
    /\ result.kind = "err"
    /\ Len(attempt_errors) = 3
    /\ attempt_errors[1] # attempt_errors[3]
    /\ result.last = attempt_errors[3]
    /\ result.attempts = 3

\* ---- batch failures are not fatal
Sending == pc \in {"next_batch", "retrying"}

\* C16: once validation has passed, no step makes run return an error: from
\* the sending phase run stays in it or returns Ok; a batch whose retries
\* are exhausted adds its events to `failed` and the loop goes on; and the
\* loop can always go on or return (offset never passes the end).
C16_FailuresNotFatal ==
    [][/\ Sending => (pc' \in {"next_batch", "retrying", "done"})
       /\ (pc = "retrying" /\ rpc = "returned" /\ result.kind = "err") =>
             /\ pc' = "next_batch"
             /\ failed' = failed + Len(ChunkAt(events, offset))
             /\ successful' = successful
       /\ pc = "next_batch" => offset <= Len(events)]_vars

C16_Witness ==
    /\ pc = "done"
    /\ validation.is_valid
    /\ successful = 0
    /\ failed = Len(events)
    /\ failed > DEFAULT_BATCH_SIZE

\* ---- configuration errors on the streaming path
NoStreamUrl == ~UrlParses(build_ws_url(ingest_url))
SleptBeforeReconnect == \E i \in 1..Len(ws_trace) : ws_trace[i].ev = "sleep"

\* C17: when no valid stream URL can be formed from ingest_url,
\* connect_and_stream never sleeps to reconnect and never calls connect_once
\* a second time.
C17_FatalConfigError ==
    (ws_pc # "idle" /\ NoStreamUrl) => (~SleptBeforeReconnect /\ conn <= 1)

\* ---- terminal condition of the stream
\* C20: connect_and_stream has returned only if the last thing that happened
\* is the receipt of a close frame on the current connection.
C20_CloseOnlyTerminal ==
    ws_pc = "returned" =>
        /\ ws_trace # <<>>
        /\ Last(ws_trace).ev = "recv"
        /\ Last(ws_trace).kind = "close"
        /\ Last(ws_trace).conn = conn

\* what the code does: it returns after a close frame or after the end of
\* the inbound stream (`read.next()` yields None), and after nothing else
C20_CloseOrEndTerminal ==
    ws_pc = "returned" =>
        /\ ws_trace # <<>>
        /\ Last(ws_trace).ev = "recv"
        /\ Last(ws_trace).kind \in {"close", "end"}
        /\ Last(ws_trace).conn = conn

\* ---- run abort policy
SomeEventInvalid == \E i \in 1..Len(events) : ~validate_event(events[i]).is_valid

\* C18 as stated: right after the validation gate, run has aborted only if
\* the parsed batch is empty, no request has been issued, and a non-empty
\* parsed batch is in the sending phase.
C18_AbortOnlyWhenEmpty ==
    Validated =>
        /\ pc = "bailed" => events = <<>>
        /\ events # <<>> => pc = "next_batch"
        /\ Requests = 0

\* C18 amended: right after the validation gate, run has aborted exactly
\* when the parsed batch is empty or one of its events fails validate_event;
\* no request has been issued by then, and a batch that passed validation is
\* in the sending phase.
C18_AbortIffInvalid ==
    Validated =>
        /\ pc = "bailed" <=> (events = <<>> \/ SomeEventInvalid)
        /\ pc # "bailed" => pc = "next_batch"
        /\ Requests = 0

C18_Witness ==
    /\ pc = "bailed"
    /\ Len(events) = 2
    /\ validate_event(events[1]).is_valid
    /\ ~validate_event(events[2]).is_valid
    /\ Requests = 0

\* ---- only well-formed events are sent
\* C19: in every request, each event of the batch handed to the transport
\* passes validate_event and is the value parsed from the line it was read
\* from.
C19_OnlyWellFormedSent ==
    (JustCalled /\ pc = "retrying") =>
        LET batch == ChunkAt(events, offset)
        IN  /\ batch # <<>>
            /\ \A i \in 1..Len(batch) :
                  /\ validate_event(batch[i]).is_valid
                  /\ batch[i] = from_str(SourceOf(offset + i)).value

C19_Witness ==
    /\ JustCalled
    /\ pc = "retrying"
    /\ parse_errors = 1
    /\ Len(file.head) = 2
    /\ Len(events) = DEFAULT_BATCH_SIZE + 1
    /\ events[1] = from_str(LGoodB).value
    /\ offset = DEFAULT_BATCH_SIZE

\* ---- authentication step
\* the events of connection c that are frames written or read, or the handler
OnWire(e, c) == e.conn = c /\ e.ev \in {"send", "recv", "handle", "send_failed"}
Connected(c) ==
    ~\E i \in 1..Len(ws_trace) :
        ws_trace[i].conn = c /\ ws_trace[i].ev \in {"parse_failed", "connect_failed"}
IsAuth(e) ==
    e.ev = "send" /\ e.kind = "auth" /\ e.payload = api_key \o "/" \o workspace

\* C21: for every connection that was established, the event right after
\* the call of connect_once is the sending of the auth frame with api_key and
\* workspace; it is the only auth frame of that connection, nothing is read,
\* handled or written on the connection before it, and no other frame with
\* the kind auth is ever written.
C21_AuthFirst ==
    /\ \A c \in 1..conn :
         Connected(c) =>
            \E i \in 1..(Len(ws_trace) - 1) :
               /\ ws_trace[i].ev = "connect_once" /\ ws_trace[i].conn = c
               /\ IsAuth(ws_trace[i + 1]) /\ ws_trace[i + 1].conn = c
               /\ \A j \in 1..Len(ws_trace) :
                     (j # i + 1 /\ OnWire(ws_trace[j], c)) =>
                        (j > i + 1 /\ ~IsAuth(ws_trace[j]))
    /\ \A j \in 1..Len(ws_trace) :
         (ws_trace[j].ev = "send" /\ ws_trace[j].kind = "auth") => IsAuth(ws_trace[j])
    /\ ws_pc = "reading" => Connected(conn)

\* the auth frame went out on a second connection and the next thing on it
\* is a text message handed to the handler: no acknowledgement in between
C21_Witness ==
    /\ conn = 2
    /\ Connected(1) /\ Connected(2)
    /\ \E i \in 1..(Len(ws_trace) - 2) :
         /\ IsAuth(ws_trace[i]) /\ ws_trace[i].conn = 2
         /\ ws_trace[i + 1].ev = "recv" /\ ws_trace[i + 1].kind = "text"
         /\ ws_trace[i + 2].ev = "handle"

\* ---- message-level faults
\* position i ends the handling of a text message that did not parse or
\* whose handler returned an error
TextFault(i) ==
    \/ /\ ws_trace[i].ev = "recv" /\ ws_trace[i].kind = "text"
       /\ ws_trace[i].payload = "not-json"
    \/ ws_trace[i].ev = "handle" /\ ws_trace[i].payload = "json:handler-err"

\* a text message that does not parse is not handed to the handler
NotHandled(i) ==
    (ws_trace[i].ev = "recv" /\ ws_trace[i].kind = "text"
       /\ ws_trace[i].payload = "not-json") =>
        (i + 1 <= Len(ws_trace) => ws_trace[i + 1].ev # "handle")

\* C22: after a text message that fails to parse, and after a handler error,
\* the client is reading on the same connection; what happens next, if
\* anything, is the receipt of the next message on that connection, and
\* neither a sleep nor a new connection.
C22_MessageFaultsKeepConnection ==
    \A i \in 1..Len(ws_trace) :
        /\ NotHandled(i)
        /\ TextFault(i) =>
             /\ i = Len(ws_trace) => (ws_pc = "reading" /\ conn = ws_trace[i].conn)
             /\ i < Len(ws_trace) =>
                  /\ ws_trace[i + 1].ev = "recv"
                  /\ ws_trace[i + 1].conn = ws_trace[i].conn

C22_Witness ==
    /\ conn = 1
    /\ Len(ws_trace) = 7
    /\ ws_trace[3].payload = "not-json"
    /\ ws_trace[5].ev = "handle" /\ ws_trace[5].payload = "json:handler-err"
    /\ ws_trace[7].ev = "handle" /\ ws_trace[7].payload = "json:handler-ok"
    /\ ws_pc = "reading"

\* ---- batch partition
\* the lengths of the batches whose outcome is recorded, in send order
RecordedEvents == SelectSeq(trace, LAMBDA e : e.ev = "recorded")
RecordedLens == [i \in 1..Len(RecordedEvents) |-> RecordedEvents[i].val]

RECURSIVE SumSeq(_)
SumSeq(q) == IF q = <<>> THEN 0 ELSE Head(q) + SumSeq(Tail(q))

\* C23: the batch of every request holds 1..100 events and is the run of
\* events that follows the batches sent before it, which were all of 100
\* events; it has 100 events unless it ends the event sequence; and when run
\* is over the batches sent add up to the whole event sequence.
C23_BatchPartition ==
    /\ (JustCalled /\ pc = "retrying") =>
         LET batch == ChunkAt(events, offset)
             before == RecordedLens
         IN  /\ Len(batch) \in 1..DEFAULT_BATCH_SIZE
             /\ offset = SumSeq(before)
             /\ \A i \in 1..Len(before) : before[i] = DEFAULT_BATCH_SIZE
             /\ batch = [i \in 1..Len(batch) |-> events[offset + i]]
             /\ Len(batch) = DEFAULT_BATCH_SIZE \/ offset + Len(batch) = Len(events)
    /\ pc = "done" =>
         /\ SumSeq(RecordedLens) = Len(events)
         /\ Len(RecordedLens) = NumChunks
         /\ \A i \in 1..Len(RecordedLens) : RecordedLens[i] = ChunkLen(i)

C23_Witness ==
    /\ pc = "done"
    /\ RecordedLens = <<DEFAULT_BATCH_SIZE, 2>>
    /\ events[1] # events[2]
    /\ events[2] # events[3]

\* ---- per-batch retry budget
CallsOf(k) == CountEv(trace, LAMBDA e : e.ev = "call" /\ e.batch = k)
SleepsOf(k) ==
    LET s == SelectSeq(trace, LAMBDA e : e.ev = "sleep" /\ e.batch = k)
    IN  [i \in 1..Len(s) |-> s[i].val]

\* C24: while a batch is being delivered the engine runs under 3 attempts,
\* 100 ms, 5 s, x2; every batch handed to the engine causes 1..3 requests and
\* at most 2 delays, and the delays of a batch are 100 ms, then 200 ms,
\* whatever happened to the batches before it.
C24_PerBatchBudget ==
    /\ pc = "retrying" =>
         cfg = [max_attempts |-> 3, initial_delay |-> 100, max_delay |-> 5000,
                backoff_multiplier |-> [num |-> 2, den |-> 1]]
    /\ \A k \in 1..chunk :
         /\ CallsOf(k) <= 3
         /\ (k < chunk \/ rpc # "start") => CallsOf(k) >= 1
         /\ Len(SleepsOf(k)) <= 2
         /\ Len(SleepsOf(k)) >= 1 => SleepsOf(k)[1] = 100
         /\ Len(SleepsOf(k)) = 2 => SleepsOf(k)[2] = 200

C24_Witness ==
    /\ chunk = 2
    /\ CallsOf(1) = 3
    /\ SleepsOf(1) = <<100, 200>>
    /\ failed = DEFAULT_BATCH_SIZE
    /\ CallsOf(2) = 2
    /\ SleepsOf(2) = <<100>>

\* ---- the engine does not classify errors
\* C25: every failed attempt that is not the last allowed one is followed by
\* a sleep and by a further invocation of the operation, whether or not
\* is_retryable_error holds of its error; so a call that ends in the
\* aggregate error has invoked the operation max_attempts times.
C25_NoClassification ==
    /\ \A n \in 1..Len(attempt_errors) :
         n < cfg.max_attempts =>
            /\ Len(Slept) >= n
            /\ Calls >= n + 1 \/ (rpc = "sleeping" /\ attempt = n)
    /\ (rpc = "returned" /\ result.kind = "err") => Calls = cfg.max_attempts

C25_Witness ==
    /\ rpc = "returned"
    /\ result.kind = "err"
    /\ cfg.max_attempts = 3
    /\ Calls = 3
    /\ Len(Slept) = 2
    /\ \A n \in 1..3 : ~is_retryable_error(attempt_errors[n])
    /\ is_retryable_error("Batch request failed: 503 Service Unavailable")

\* ---- per-event validation
\* the event has the three required fields, its identifier under either of
\* the names the data model gives it
HasIdentifiedFields(e) ==
    /\ e.kind = "object"
    /\ "timestamp" \in DOMAIN e.map
    /\ "source" \in DOMAIN e.map \/ "event_type" \in DOMAIN e.map
    /\ "data" \in DOMAIN e.map

\* C26: validate_event reports an error for an event exactly when the event
\* is not an object or lacks `timestamp`, its identifier (`source` or
\* `event_type`) or `data`.
C26_ValidIffIdentified ==
    pc = "checked" =>
        \A i \in 1..Len(events) :
            validate_event(events[i]).is_valid <=> HasIdentifiedFields(events[i])

\* what the code does: the identifier must be named `source`
C26_ValidIffSource ==
    pc = "checked" =>
        \A i \in 1..Len(events) :
            /\ validate_event(events[i]).is_valid <=> StructurallyValid(events[i])
            /\ validate_event(events[i]).is_valid
                 <=> validate_event(events[i]).errors = <<>>

\* ---- stream endpoint
WsSchemeOf(s) == IF s = "https://" THEN "wss://" ELSE "ws://"

\* C27: for an ingest_url with scheme http or https, the URL the client
\* connects to is the mirrored scheme, the host of ingest_url and /ws/stream,
\* and nothing else.
C27_StreamEndpoint ==
    (ws_pc \notin {"idle", "start"} /\ ingest_url[1] \in {"http://", "https://"}) =>
        ws_url = <<WsSchemeOf(ingest_url[1]), ingest_url[2], "/ws/stream">>

\* what the code does: everything after the scheme is kept, path included
C27_SuffixAppended ==
    (ws_pc \notin {"idle", "start"} /\ ingest_url[1] \in {"http://", "https://"}) =>
        ws_url = <<WsSchemeOf(ingest_url[1])>> \o Tail(ingest_url) \o <<"/ws/stream">>

\* ---- single initialisation of the configuration
ConfigAvailable == environment # "none"

\* C28: when a configuration can be found, every task whose call of
\* Config::load has returned got Ok with the configuration that is in the
\* cache.
C28_EveryLoaderSucceeds ==
    ConfigAvailable =>
        \A t \in Loaders :
            loaders[t].pc = "done" =>
                /\ loaders[t].ret.kind = "ok"
                /\ CACHED_CONFIG = <<loaders[t].ret.config>>

\* what the code does: the cache is set at most once, every Ok refers to the
\* cached value, and the only error is that of a task that lost the race
C28_OneWinner ==
    ConfigAvailable =>
        \A t \in Loaders :
            loaders[t].pc = "done" =>
                /\ CACHED_CONFIG # <<>>
                /\ loaders[t].ret.kind = "ok" => CACHED_CONFIG = <<loaders[t].ret.config>>
                /\ loaders[t].ret.kind = "err" =>
                     /\ loaders[t].ret.config = "Failed to cache config"
                     /\ loaders[t].local # ""

\* ---- outbound frames of the stream client
Sends == CountEv(ws_trace, LAMBDA e : e.ev = "send")
PingsReceived == CountEv(ws_trace, LAMBDA e : e.ev = "recv" /\ e.kind = "ping")
Established == Cardinality({c \in 1..conn : Connected(c)})

InSendingPhase == pc \in {"next_batch", "retrying", "done"}

\* C30: once validation has passed, run reaches its end; by then and at
\* any time before, it has issued at most 3 requests and slept at most 2
\* delays per batch of the validated events, and at the end the outcome of
\* every batch is recorded.
C30_Termination ==
    /\ [](InSendingPhase =>
            /\ Calls <= 3 * NumChunks
            /\ Len(SleepEvents) <= 2 * NumChunks
            /\ pc = "done" => Len(RecordedLens) = NumChunks)
    /\ InSendingPhase ~> (pc = "done")

C30_Witness ==
    /\ pc = "done"
    /\ NumChunks = 2
    /\ Calls = 3 * NumChunks
    /\ Len(SleepEvents) = 2 * NumChunks
    /\ Len(RecordedLens) = NumChunks

\* ---- the Retry Engine with no attempts allowed
ZeroAttempts == cfg.max_attempts = 0

\* C31: with max_attempts = 0 the operation is never invoked and no delay
\* is slept (the history of calls, outcomes and sleeps stays empty), and
\* retry_with_backoff goes from its entry straight to a failure that
\* reports 0 attempts and the last error "Unknown error".
C31_ZeroAttempts ==
    ZeroAttempts =>
        /\ Calls = 0
        /\ SleepEvents = <<>>
        /\ trace = <<>>
        /\ attempt_errors = <<>>
        /\ rpc \in {"start", "returned"}
        /\ rpc = "returned" =>
              result = [kind |-> "err", attempts |-> 0, last |-> "Unknown error"]

C31_Witness ==
    /\ ZeroAttempts
    /\ rpc = "returned"
    /\ result.kind = "err"
    /\ result.attempts = 0
    /\ result.last = "Unknown error"
    /\ trace = <<>>

\* ---- WorkspaceManager: what a failed call leaves in memory
MgrFailed == mgr_ret.kind = "err"

\* C32: a call of add_workspace or set_current that returns an error
\* leaves the workspace map and the current selection as they were before
\* the call.
C32_ErrorLeavesManager ==
    [][MgrFailed' => (workspaces' = workspaces /\ current' = current)]_vars

\* as coded: only the refusal of an unknown name leaves the manager as it
\* was; when save fails, the insert or the new selection made before it
\* stays in memory although the call returned an error
C32_RefusalLeavesManager ==
    [][(mgr_ret'.kind = "err" /\ mgr_ret'.error = "Workspace not found") =>
          UNCHANGED <<workspaces, current, workspace_file>>]_vars

C32_UpdateKeptOnError ==
    /\ (MgrFailed /\ mgr_ret.op = "add_workspace") =>
           mgr_ret.arg \in DOMAIN workspaces
    /\ (MgrFailed /\ mgr_ret.op = "set_current"
          /\ mgr_ret.error # "Workspace not found") => current = <<mgr_ret.arg>>

\* a failed save has left a workspace in memory that the file does not hold
C32_MemoryAheadOfFile ==
    /\ MgrFailed
    /\ mgr_ret.op = "add_workspace"
    /\ workspace_file = NoFile
    /\ DOMAIN workspaces = {"dev"}

====
